---- MODULE Spec2Model ----
(***************************************************************************)
(* Model of ClaimDecomp-Llama/Notebook/OllamaCached.py.                    *)
(*                                                                         *)
(* One behaviour is one call of one of the module's entry points: the      *)
(* script entry point (check_and_download_model alone) or one of the four  *)
(* prompt variants.  The external runtime (ollama.list, ollama.pull,       *)
(* ollama.chat) is the environment: the catalog it lists, the progress     *)
(* events its pull stream yields, the replies of its chat endpoint and its *)
(* failures are chosen nondeterministically.                               *)
(*                                                                         *)
(* A Python str is a sequence of tokens, + is \o; a caller's string is a   *)
(* one-token sequence.  A dict is a record, a list is a sequence; the one  *)
(* list that the code nests inside a message list is wrapped in a record   *)
(* with the single field "list".                                           *)
(*                                                                         *)
(* A progress indicator is a tqdm bar: total, n (its position) and disable *)
(* (tqdm.close() sets disable; close() and update() return at once on a    *)
(* disabled bar).                                                          *)
(***************************************************************************)
EXTENDS Integers, Sequences, FiniteSets, TLC

\* ---------------------------------------------------------------- bounds
MaxCatalog == 2
MaxEvents == 4
MaxChatEvents == 1
MaxPairs == 2
MaxBytes == 2

\* ---------------------------------------------------------------- inputs
Str(a) == <<a>>

ModelNames == {Str("llama2"), Str("mistral")}
Digests == {"sha256:A", "sha256:B"}
Statuses == {"pulling manifest"}
Replies == {Str("r1"), Str("r2")}
Messages == {Str("Hi"), Str("Q")}
Pairs == {<<Str("a"), Str("1")>>, <<Str("b"), Str("2")>>}

SeqsUpTo(S, n) == UNION {[1..k -> S] : k \in 0..n}

\* A progress event.  digest "" is a missing digest key, total 0 and
\* completed 0 are a missing, None or zero value: all are falsy to the code.
ProgressEvents ==
    [digest : {""}, status : Statuses, total : {0}, completed : {0}]
    \cup [digest : Digests, status : {"pulling"}, total : {0, MaxBytes},
          completed : 0..MaxBytes]

NoProgress == [digest |-> "", status |-> "", total |-> 0, completed |-> 0]

Variants == {"zero_shot", "few_shot", "chain_of_reasoning_zero_shot",
             "chain_of_reasoning_few_shot"}
EntryPoints == {"__main__"} \cup Variants

VARIABLES
    fn,               \* the entry point this behaviour runs
    model_name, training_data, has_map, message,     \* its arguments
    existing_models,  \* what ollama.list()["models"] returns
    eventsLeft,       \* events the pull stream can still yield
    pc,               \* position in the code
    model_exists, current_digest, bars, progress, digest,
    declared,         \* digests for which an event carried a total so far
    stdout,           \* lines printed
    pullCalls,        \* calls of ollama.pull
    checkCalls, checkReturns,   \* calls of / returns from check_and_download_model
    chatCalls,        \* calls of ollama.chat: model, messages, response
    complex_response, \* local of the two chain_of_reasoning variants
    result,           \* value returned by the variant
    error             \* exception that left the entry point

args == <<fn, model_name, training_data, has_map, message, existing_models>>
pullVars == <<model_exists, current_digest, bars, progress, digest, declared>>
vars == <<fn, model_name, training_data, has_map, message, existing_models,
          eventsLeft, pc, model_exists, current_digest, bars, progress,
          digest, declared, stdout, pullCalls, checkCalls, checkReturns,
          chatCalls, complex_response, result, error>>

\* ---------------------------------------------------------------- text
UNCACHED == Str("Model Uncached - Downloading...")
COMPLETE == Str("Download Complete.")
CACHED == Str("Model Cached - Using Cached Version...")
STEP_BY_STEP == Str("Let's think step by step.")
THEREFORE == Str("Therefore, the final answer is ")

User(content) == [role |-> "user", content |-> content]
Assistant(content) == [role |-> "assistant", content |-> content]

\* The response of ollama.chat(..., stream=False).
ChatResponse(model, reply) ==
    [model |-> model, message |-> Assistant(reply), done |-> TRUE]
ChatError == [error |-> "ResponseError"]
NoResponse == [error |-> "none"]

EmptyBars == [d \in {} |-> 0]

\* ---------------------------------------------------------------- init
InitLocals ==
    /\ pc = "start"
    /\ model_exists = FALSE
    /\ current_digest = ""
    /\ bars = EmptyBars
    /\ progress = NoProgress
    /\ digest = ""
    /\ declared = {}
    /\ stdout = <<>>
    /\ pullCalls = 0
    /\ checkCalls = 0
    /\ checkReturns = 0
    /\ chatCalls = <<>>
    /\ complex_response = NoResponse
    /\ result = <<>>
    /\ error = "none"

Catalogs == SeqsUpTo([name : ModelNames], MaxCatalog)

\* Arguments of the entry point fn; an entry point without a training_data
\* parameter gets the empty sequence.
ArgsOf(f, tds, msgs) ==
    /\ fn = f
    /\ message \in (IF f = "__main__" THEN {Str("")} ELSE msgs)
    /\ training_data \in
         (IF f \in {"few_shot", "chain_of_reasoning_few_shot"}
          THEN tds ELSE {<<>>})
    /\ has_map \in
         (IF f = "chain_of_reasoning_few_shot" THEN BOOLEAN ELSE {FALSE})

\* The download: every catalog, every event stream; one sample of arguments.
InitPull ==
    /\ InitLocals
    /\ \E f \in EntryPoints : ArgsOf(f, {<<<<Str("a"), Str("1")>>>>}, {Str("Q")})
    /\ model_name = Str("llama2")
    /\ existing_models \in Catalogs
    /\ eventsLeft = MaxEvents

\* The prompt variants: every argument; the model cached or not, a short
\* stream.
InitChat ==
    /\ InitLocals
    /\ \E f \in EntryPoints : ArgsOf(f, SeqsUpTo(Pairs, MaxPairs), Messages)
    /\ model_name = Str("llama2")
    /\ existing_models \in {<<>>, <<[name |-> model_name]>>}
    /\ eventsLeft = MaxChatEvents

\* ------------------------------------------- check_and_download_model
\* Variant of ScanModels: each entry overwrites the flag.
RECURSIVE ScanModelsOverwrite(_, _, _)
ScanModelsOverwrite(models, name, found) ==
    IF models = <<>> THEN found
    ELSE ScanModelsOverwrite(Tail(models), name, Head(models)["name"] = name)

\* Lines 21-23: the scan of the catalog; no break, a match sets the flag.
RECURSIVE ScanModels(_, _, _)
ScanModels(models, name, found) ==
    IF models = <<>> THEN found
    ELSE ScanModels(Tail(models), name,
                    IF Head(models)["name"] = name THEN TRUE ELSE found)

\* Where the caller continues once check_and_download_model has returned.
AfterCheck(f) ==
    CASE f = "__main__" -> "done"
      [] f = "zero_shot" -> "zero_shot_chat"
      [] f = "few_shot" -> "few_shot_chat"
      [] f = "chain_of_reasoning_zero_shot" -> "cor_zero_first"
      [] f = "chain_of_reasoning_few_shot" -> "cor_few_first"

\* An exception leaves the entry point: nothing handles it.
Raise(e) ==
    /\ pc' = "raised"
    /\ error' = e

\* Variant of CallCheck: the entry point goes on without the presence check.
CallCheckSkipped ==
    /\ pc = "start"
    /\ pc' = AfterCheck(fn)
    /\ UNCHANGED <<args, eventsLeft, pullVars, stdout, pullCalls, checkCalls,
                   checkReturns, chatCalls, complex_response, result, error>>

\* Lines 51, 63, 81, 102, 135: the entry point calls check_and_download_model.
CallCheck ==
    /\ pc = "start"
    /\ checkCalls' = checkCalls + 1
    /\ pc' = "list"
    /\ UNCHANGED <<args, eventsLeft, pullVars, stdout, pullCalls,
                   checkReturns, chatCalls, complex_response, result, error>>

\* Lines 18-23: ollama.list() and the scan.
ListModels ==
    /\ pc = "list"
    /\ model_exists' = ScanModels(existing_models, model_name, FALSE)
    /\ pc' = "branch"
    /\ UNCHANGED <<args, eventsLeft, current_digest, bars, progress, digest,
                   declared, stdout, pullCalls, checkCalls, checkReturns,
                   chatCalls, complex_response, result, error>>

\* Line 20: ollama.list() raises (the runtime is unreachable).
ListFails ==
    /\ pc = "list"
    /\ Raise("ResponseError")
    /\ UNCHANGED <<args, eventsLeft, pullVars, stdout, pullCalls, checkCalls,
                   checkReturns, chatCalls, complex_response, result>>

\* Lines 45-46: the model is listed.
Cached ==
    /\ pc = "branch"
    /\ model_exists
    /\ stdout' = Append(stdout, CACHED)
    /\ checkReturns' = checkReturns + 1
    /\ pc' = AfterCheck(fn)
    /\ UNCHANGED <<args, eventsLeft, pullVars, pullCalls, checkCalls,
                   chatCalls, complex_response, result, error>>

\* Lines 25-27.
Uncached ==
    /\ pc = "branch"
    /\ ~model_exists
    /\ stdout' = Append(stdout, UNCACHED)
    /\ current_digest' = ""
    /\ bars' = EmptyBars
    /\ pc' = "pull_call"
    /\ UNCHANGED <<args, eventsLeft, model_exists, progress, digest, declared,
                   pullCalls, checkCalls, checkReturns, chatCalls,
                   complex_response, result, error>>

\* Line 28: ollama.pull(model_name, stream=True) is called once, before the
\* first iteration.
PullCall ==
    /\ pc = "pull_call"
    /\ pullCalls' = pullCalls + 1
    /\ pc' = "pull_next"
    /\ UNCHANGED <<args, eventsLeft, pullVars, stdout, checkCalls,
                   checkReturns, chatCalls, complex_response, result, error>>

\* Lines 28-29: the stream yields an event.
PullNext ==
    /\ pc = "pull_next"
    /\ eventsLeft > 0
    /\ \E ev \in ProgressEvents :
         /\ progress' = ev
         /\ digest' = ev.digest
         /\ declared' = IF ev.digest # "" /\ ev.total # 0
                        THEN declared \cup {ev.digest} ELSE declared
    /\ eventsLeft' = eventsLeft - 1
    /\ pc' = "close_prev"
    /\ UNCHANGED <<args, model_exists, current_digest, bars, stdout, pullCalls,
                   checkCalls, checkReturns, chatCalls, complex_response,
                   result, error>>

\* Line 28: the stream raises (the download fails).
PullFails ==
    /\ pc = "pull_next"
    /\ Raise("ResponseError")
    /\ UNCHANGED <<args, eventsLeft, pullVars, stdout, pullCalls, checkCalls,
                   checkReturns, chatCalls, complex_response, result>>

\* tqdm.close(): disables the bar.
Close(bar) == [bar EXCEPT !.disable = TRUE]

\* tqdm.update(n): returns at once on a disabled bar, else adds n.
Update(bar, n) == IF bar.disable THEN bar ELSE [bar EXCEPT !.n = bar.n + n]

\* tqdm(total=total, ...): a new bar at position 0.
Tqdm(total) == [total |-> total, n |-> 0, disable |-> FALSE]

\* Variant of ClosePrev: the previous bar is left as it is.
ClosePrevSkipped ==
    /\ pc = "close_prev"
    /\ pc' = "status"
    /\ UNCHANGED <<args, eventsLeft, pullVars, stdout, pullCalls, checkCalls,
                   checkReturns, chatCalls, complex_response, result, error>>

\* Lines 30-31.
ClosePrev ==
    /\ pc = "close_prev"
    /\ bars' = IF digest # current_digest /\ current_digest \in DOMAIN bars
               THEN [bars EXCEPT ![current_digest] = Close(@)]
               ELSE bars
    /\ pc' = "status"
    /\ UNCHANGED <<args, eventsLeft, model_exists, current_digest, progress,
                   digest, declared, stdout, pullCalls, checkCalls,
                   checkReturns, chatCalls, complex_response, result, error>>

\* Lines 33-35: an event without a digest is printed and skipped.
Status ==
    /\ pc = "status"
    /\ IF digest = ""
       THEN /\ stdout' = Append(stdout, Str(progress.status))
            /\ pc' = "pull_next"
       ELSE /\ stdout' = stdout
            /\ pc' = "open_bar"
    /\ UNCHANGED <<args, eventsLeft, pullVars, pullCalls, checkCalls,
                   checkReturns, chatCalls, complex_response, result, error>>

\* Lines 37-38.
OpenBar ==
    /\ pc = "open_bar"
    /\ bars' = IF digest \notin DOMAIN bars /\ progress.total # 0
               THEN [d \in DOMAIN bars \cup {digest} |->
                        IF d = digest THEN Tqdm(progress.total) ELSE bars[d]]
               ELSE bars
    /\ pc' = "update_bar"
    /\ UNCHANGED <<args, eventsLeft, model_exists, current_digest, progress,
                   digest, declared, stdout, pullCalls, checkCalls,
                   checkReturns, chatCalls, complex_response, result, error>>

\* Variant of UpdateBar: an update for a digest without a bar is skipped.
UpdateBarGuarded ==
    /\ pc = "update_bar"
    /\ bars' = IF progress.completed # 0 /\ digest \in DOMAIN bars
               THEN [bars EXCEPT ![digest] =
                        Update(@, progress.completed - @.n)]
               ELSE bars
    /\ pc' = "set_current"
    /\ UNCHANGED <<args, eventsLeft, model_exists, current_digest, progress,
                   digest, declared, stdout, pullCalls, checkCalls,
                   checkReturns, chatCalls, complex_response, result, error>>

\* Lines 40-41: bars[digest] is a KeyError when the digest has no bar.
UpdateBar ==
    /\ pc = "update_bar"
    /\ IF progress.completed # 0
       THEN IF digest \in DOMAIN bars
            THEN /\ bars' = [bars EXCEPT ![digest] =
                                Update(@, progress.completed - @.n)]
                 /\ pc' = "set_current"
                 /\ error' = error
            ELSE /\ bars' = bars
                 /\ Raise("KeyError")
       ELSE /\ bars' = bars
            /\ pc' = "set_current"
            /\ error' = error
    /\ UNCHANGED <<args, eventsLeft, model_exists, current_digest, progress,
                   digest, declared, stdout, pullCalls, checkCalls,
                   checkReturns, chatCalls, complex_response, result>>

\* Line 43.
SetCurrent ==
    /\ pc = "set_current"
    /\ current_digest' = digest
    /\ pc' = "pull_next"
    /\ UNCHANGED <<args, eventsLeft, model_exists, bars, progress, digest,
                   declared, stdout, pullCalls, checkCalls, checkReturns,
                   chatCalls, complex_response, result, error>>

\* Variant of PullExhausted: every bar is closed when the stream ends.
PullExhaustedClosing ==
    /\ pc = "pull_next"
    /\ bars' = [d \in DOMAIN bars |-> Close(bars[d])]
    /\ stdout' = Append(stdout, COMPLETE)
    /\ checkReturns' = checkReturns + 1
    /\ pc' = AfterCheck(fn)
    /\ UNCHANGED <<args, eventsLeft, model_exists, current_digest, progress,
                   digest, declared, pullCalls, checkCalls, chatCalls,
                   complex_response, result, error>>

\* Lines 28, 44: the stream is exhausted; the function returns.
PullExhausted ==
    /\ pc = "pull_next"
    /\ stdout' = Append(stdout, COMPLETE)
    /\ checkReturns' = checkReturns + 1
    /\ pc' = AfterCheck(fn)
    /\ UNCHANGED <<args, eventsLeft, pullVars, pullCalls, checkCalls,
                   chatCalls, complex_response, result, error>>

\* ---------------------------------------------------------- ollama.chat
\* What ollama.chat(model=..., messages=..., stream=False) can do: return a
\* response or raise.
ChatOutcomes(model) == {ChatResponse(model, r) : r \in Replies} \cup {ChatError}

Failed(response) == "error" \in DOMAIN response

ChatCall(model, messages, response) ==
    [model |-> model, messages |-> messages, response |-> response]

\* ------------------------------------------------------------- zero_shot
\* Variant of ZeroShotChat: the step-by-step nudge is sent too.
ZeroShotChatNudged ==
    /\ pc = "zero_shot_chat"
    /\ stdout' = Append(stdout, Str("Zero Shot (") \o model_name \o Str("):"))
    /\ \E response \in ChatOutcomes(model_name) :
         /\ chatCalls' = Append(chatCalls,
                ChatCall(model_name,
                         <<User(message), Assistant(STEP_BY_STEP)>>, response))
         /\ IF Failed(response)
            THEN /\ Raise("ResponseError")
                 /\ result' = result
            ELSE /\ result' = response["message"]["content"]
                 /\ pc' = "done"
                 /\ error' = error
    /\ UNCHANGED <<args, eventsLeft, pullVars, pullCalls, checkCalls,
                   checkReturns, complex_response>>

\* Lines 65-67.
ZeroShotChat ==
    /\ pc = "zero_shot_chat"
    /\ stdout' = Append(stdout, Str("Zero Shot (") \o model_name \o Str("):"))
    /\ \E response \in ChatOutcomes(model_name) :
         /\ chatCalls' = Append(chatCalls,
                ChatCall(model_name, <<User(message)>>, response))
         /\ IF Failed(response)
            THEN /\ Raise("ResponseError")
                 /\ result' = result
            ELSE /\ result' = response["message"]["content"]
                 /\ pc' = "done"
                 /\ error' = error
    /\ UNCHANGED <<args, eventsLeft, pullVars, pullCalls, checkCalls,
                   checkReturns, complex_response>>

\* -------------------------------------------------------------- few_shot
\* Line 86: the text of one pair.
PairText(pair) ==
    Str("Input: ") \o pair[1] \o Str("\nOutput: ") \o pair[2] \o Str("\n")

\* Variant of FoldPairs: the loop appends each pair's text.
RECURSIVE FoldPairsAppending(_, _)
FoldPairsAppending(pairs, few_shot_message) ==
    IF pairs = <<>> THEN few_shot_message
    ELSE FoldPairsAppending(Tail(pairs),
                            few_shot_message \o PairText(Head(pairs)))

\* Lines 85-86: the loop assigns, it does not append.
RECURSIVE FoldPairs(_, _)
FoldPairs(pairs, few_shot_message) ==
    IF pairs = <<>> THEN few_shot_message
    ELSE FoldPairs(Tail(pairs), PairText(Head(pairs)))

\* Lines 84-87.
FewShotMessage(pairs, msg) ==
    FoldPairs(pairs, Str("\n\n")) \o Str("\n\n") \o msg

\* Lines 83-89.
FewShotChat ==
    /\ pc = "few_shot_chat"
    /\ stdout' = Append(stdout,
           Str("Few Shot (") \o model_name \o Str("): ")
           \o Str(ToString(Len(training_data))) \o Str(" Samples"))
    /\ \E response \in ChatOutcomes(model_name) :
         /\ chatCalls' = Append(chatCalls,
                ChatCall(model_name,
                         <<User(FewShotMessage(training_data, message))>>,
                         response))
         /\ IF Failed(response)
            THEN /\ Raise("ResponseError")
                 /\ result' = result
            ELSE /\ result' = response["message"]["content"]
                 /\ pc' = "done"
                 /\ error' = error
    /\ UNCHANGED <<args, eventsLeft, pullVars, pullCalls, checkCalls,
                   checkReturns, complex_response>>

\* ------------------------------------------ chain_of_reasoning_zero_shot
\* Lines 104-112.
CorZeroFirst ==
    /\ pc = "cor_zero_first"
    /\ stdout' = Append(stdout,
           Str("Chain of Reasoning - Zero Shot (") \o model_name \o Str("):"))
    /\ LET initial_messages == <<User(message), Assistant(STEP_BY_STEP)>>
       IN \E response \in ChatOutcomes(model_name) :
            /\ chatCalls' = Append(chatCalls,
                   ChatCall(model_name, initial_messages, response))
            /\ IF Failed(response)
               THEN /\ Raise("ResponseError")
                    /\ complex_response' = complex_response
               ELSE /\ complex_response' = response
                    /\ pc' = "cor_zero_second"
                    /\ error' = error
    /\ UNCHANGED <<args, eventsLeft, pullVars, pullCalls, checkCalls,
                   checkReturns, result>>

\* Variant of CorZeroSecond: only the message of the first response is sent.
CorZeroSecondMessageOnly ==
    /\ pc = "cor_zero_second"
    /\ \E response \in ChatOutcomes(model_name) :
         /\ chatCalls' = Append(chatCalls,
                ChatCall(model_name,
                         <<complex_response["message"], Assistant(THEREFORE)>>,
                         response))
         /\ IF Failed(response)
            THEN /\ Raise("ResponseError")
                 /\ result' = result
            ELSE /\ result' = response["message"]["content"]
                 /\ pc' = "done"
                 /\ error' = error
    /\ UNCHANGED <<args, eventsLeft, pullVars, stdout, pullCalls, checkCalls,
                   checkReturns, complex_response>>

\* Lines 113-120: the whole first response is the first message.
CorZeroSecond ==
    /\ pc = "cor_zero_second"
    /\ \E response \in ChatOutcomes(model_name) :
         /\ chatCalls' = Append(chatCalls,
                ChatCall(model_name,
                         <<complex_response, Assistant(THEREFORE)>>,
                         response))
         /\ IF Failed(response)
            THEN /\ Raise("ResponseError")
                 /\ result' = result
            ELSE /\ result' = response["message"]["content"]
                 /\ pc' = "done"
                 /\ error' = error
    /\ UNCHANGED <<args, eventsLeft, pullVars, stdout, pullCalls, checkCalls,
                   checkReturns, complex_response>>

\* ------------------------------------------- chain_of_reasoning_few_shot
\* Line 140: the lambda.
CorPairText(pair) ==
    Str("Input: ") \o pair[1]
    \o Str("\nOutput: Let's think step by step. \n") \o pair[2]

\* Line 139: sep.join(texts).
RECURSIVE Join(_, _)
Join(sep, texts) ==
    IF texts = <<>> THEN <<>>
    ELSE IF Len(texts) = 1 THEN Head(texts)
    ELSE Head(texts) \o sep \o Join(sep, Tail(texts))

\* Lines 139-142, for a training_data that has a map method.
CorFewShotMessage(pairs, msg) ==
    Join(Str("\n\n"), [i \in 1..Len(pairs) |-> CorPairText(pairs[i])])
    \o Str("\n\n") \o msg

\* Lines 144-147.
CorFewInitialMessages(pairs, msg) ==
    <<User(CorFewShotMessage(pairs, msg)), Assistant(STEP_BY_STEP)>>

\* Lines 137-150.  training_data.map is an AttributeError on a list, a
\* tuple or an array, which have no such method.
CorFewFirst ==
    /\ pc = "cor_few_first"
    /\ stdout' = Append(stdout,
           Str("Few Shot - Chain of Reasoning (") \o model_name \o Str("): ")
           \o Str(ToString(Len(training_data))) \o Str(" Samples"))
    /\ IF ~has_map
       THEN /\ Raise("AttributeError")
            /\ UNCHANGED <<chatCalls, complex_response>>
       ELSE \E response \in ChatOutcomes(model_name) :
              /\ chatCalls' = Append(chatCalls,
                     ChatCall(model_name,
                              CorFewInitialMessages(training_data, message),
                              response))
              /\ IF Failed(response)
                 THEN /\ Raise("ResponseError")
                      /\ complex_response' = complex_response
                 ELSE /\ complex_response' = response
                      /\ pc' = "cor_few_second"
                      /\ error' = error
    /\ UNCHANGED <<args, eventsLeft, pullVars, pullCalls, checkCalls,
                   checkReturns, result>>

\* Lines 151-159: the list initial_messages itself is the first element,
\* then the message of the first response, then the nudge.
CorFewSecond ==
    /\ pc = "cor_few_second"
    /\ \E response \in ChatOutcomes(model_name) :
         /\ chatCalls' = Append(chatCalls,
                ChatCall(model_name,
                         << [list |-> CorFewInitialMessages(training_data,
                                                            message)],
                            complex_response["message"],
                            Assistant(THEREFORE) >>,
                         response))
         /\ IF Failed(response)
            THEN /\ Raise("ResponseError")
                 /\ result' = result
            ELSE /\ result' = response["message"]["content"]
                 /\ pc' = "done"
                 /\ error' = error
    /\ UNCHANGED <<args, eventsLeft, pullVars, stdout, pullCalls, checkCalls,
                   checkReturns, complex_response>>

\* --------------------------------------------------------- specification
Next ==
    \/ CallCheck
    \/ ListModels
    \/ ListFails
    \/ Cached
    \/ Uncached
    \/ PullCall
    \/ PullNext
    \/ PullFails
    \/ ClosePrev
    \/ Status
    \/ OpenBar
    \/ UpdateBar
    \/ SetCurrent
    \/ PullExhausted
    \/ ZeroShotChat
    \/ FewShotChat
    \/ CorZeroFirst
    \/ CorZeroSecond
    \/ CorFewFirst
    \/ CorFewSecond

\* The download under every catalog and event stream.
Spec == InitPull /\ [][Next]_vars

\* The prompt variants under every argument.
SpecChat == InitChat /\ [][Next]_vars

\* ---------------------------------------------------------------- claims
Range(seq) == {seq[i] : i \in 1..Len(seq)}

\* Some entry of the catalog is named exactly model_name.
ModelListed ==
    \E i \in 1..Len(existing_models) : existing_models[i]["name"] = model_name

\* check_and_download_model has just returned: stdout is what it printed.
JustReturned == checkReturns = 1 /\ pc = AfterCheck(fn)

OpenBars == {d \in DOMAIN bars : ~bars[d].disable}

\* C1: ollama.pull is called zero times when an entry of the catalog is named
\* model_name, and then only "Model Cached" is printed; it is called exactly
\* once when no entry matches, "Model Uncached" is printed before that call
\* and "Download Complete." after the stream is exhausted without error.
C1_PullIffUnlisted ==
    /\ pullCalls \in {0, 1}
    /\ ModelListed => pullCalls = 0
    /\ pullCalls = 1 => stdout # <<>> /\ stdout[1] = UNCACHED
    /\ COMPLETE \in Range(stdout) => checkReturns = 1
    /\ JustReturned =>
         IF ModelListed
         THEN stdout = <<CACHED>>
         ELSE /\ pullCalls = 1
              /\ Len(stdout) >= 2
              /\ stdout[1] = UNCACHED
              /\ stdout[Len(stdout)] = COMPLETE
              /\ \A k \in 2..(Len(stdout) - 1) :
                   stdout[k] \notin {UNCACHED, COMPLETE, CACHED}

\* C1 witness: a download from a catalog of other entries only has returned.
C1_Witness ==
    /\ JustReturned
    /\ ~ModelListed
    /\ Len(existing_models) = MaxCatalog
    /\ pullCalls = 1
    /\ Len(stdout) >= 3

\* C2: at every point of the download loop at most one bar is open, and once
\* an event's digest differs from the previous digest, the previous digest's
\* bar is closed before a bar is opened for the new digest.
C2_OneOpenBar ==
    /\ Cardinality(OpenBars) <= 1
    /\ ( /\ pc \in {"status", "open_bar", "update_bar", "set_current"}
         /\ digest # current_digest
         /\ current_digest \in DOMAIN bars )
       => bars[current_digest].disable

\* C2 witness: a bar has just been opened for a new digest and the previous
\* digest's bar is closed.
C2_Witness ==
    /\ pc = "update_bar"
    /\ digest # current_digest
    /\ current_digest \in DOMAIN bars
    /\ digest \in OpenBars

\* C3: after an event with a digest that has a bar and a non-zero completed
\* count has been processed, the position of that bar equals the count.
C3_PositionIsCompleted ==
    (pc = "set_current" /\ progress.completed # 0)
    => (digest \in DOMAIN bars /\ bars[digest].n = progress.completed)

\* C4: a prompt variant calls check_and_download_model exactly once, no chat
\* call is issued before it has returned, and none at all when it raises.
C4_CheckBeforeChat ==
    /\ checkCalls \in {0, 1}
    /\ checkReturns \in {0, 1}
    /\ pc # "start" => checkCalls = 1
    /\ chatCalls # <<>> => checkReturns = 1
    /\ (pc = "raised" /\ checkReturns = 0) => chatCalls = <<>>
    /\ (fn \in Variants /\ pc = "done") => (chatCalls # <<>> /\ checkReturns = 1)

\* C4 witness: a variant has downloaded the model and issued a chat call.
C4_Witness ==
    /\ fn \in Variants
    /\ pullCalls = 1
    /\ chatCalls # <<>>

\* C5: chain_of_reasoning_zero_shot issues at most two chat calls, two when it
\* returns; the first sends [user: message, assistant: step-by-step nudge],
\* the second sends the first call's whole response and the final-answer
\* nudge, and the result is the content of the second response's message.
C5_CorZeroTwoCalls ==
    fn = "chain_of_reasoning_zero_shot" =>
      /\ Len(chatCalls) <= 2
      /\ Len(chatCalls) >= 1 =>
           chatCalls[1].messages =
             << [role |-> "user", content |-> message],
                [role |-> "assistant",
                 content |-> <<"Let's think step by step.">>] >>
      /\ Len(chatCalls) = 2 =>
           /\ ~Failed(chatCalls[1].response)
           /\ Len(chatCalls[2].messages) = 2
           /\ chatCalls[2].messages[1] = chatCalls[1].response
           /\ chatCalls[2].messages[2] =
                [role |-> "assistant",
                 content |-> <<"Therefore, the final answer is ">>]
      /\ pc = "done" =>
           /\ Len(chatCalls) = 2
           /\ result = chatCalls[2].response["message"]["content"]

\* C5 witness: chain_of_reasoning_zero_shot has returned.
C5_Witness ==
    /\ fn = "chain_of_reasoning_zero_shot"
    /\ pc = "done"
    /\ Len(chatCalls) = 2

\* Tokens of the training pairs before the last one that differ from it.
EarlierTokens ==
    UNION { Range(training_data[i][1]) \cup Range(training_data[i][2]) :
            i \in {j \in 1..(Len(training_data) - 1) :
                     training_data[j] # training_data[Len(training_data)]} }

\* C6: few_shot issues one chat call with a single user message; for a
\* non-empty training_data its content is the last pair as
\* "Input: <in>\nOutput: <out>\n", then "\n\n", then the message, and no text
\* of an earlier pair.
C6_FewShotLastPairOnly ==
    fn = "few_shot" =>
      /\ Len(chatCalls) <= 1
      /\ pc = "done" => Len(chatCalls) = 1
      /\ (chatCalls # <<>> /\ training_data # <<>>) =>
           LET last == training_data[Len(training_data)]
               sent == chatCalls[1].messages
           IN /\ Len(sent) = 1
              /\ sent[1].role = "user"
              /\ sent[1].content =
                   <<"Input: ">> \o last[1] \o <<"\nOutput: ">> \o last[2]
                   \o <<"\n">> \o <<"\n\n">> \o message
              /\ Range(sent[1].content) \cap EarlierTokens = {}

\* C6 witness: few_shot has returned for two different pairs.
C6_Witness ==
    /\ fn = "few_shot"
    /\ pc = "done"
    /\ Len(training_data) = 2
    /\ training_data[1] # training_data[2]

\* C7: chain_of_reasoning_few_shot follows the two-call pattern of
\* chain_of_reasoning_zero_shot: unless the runtime fails it returns after
\* exactly two chat calls; the first prompt is all pairs, each output
\* prefixed with the step-by-step marker, then the message; the second call
\* sends the reasoning response and the final-answer nudge.
C7_CorFewTwoCalls ==
    fn = "chain_of_reasoning_few_shot" =>
      /\ pc = "raised" => error = "ResponseError"
      /\ pc = "done" =>
           /\ Len(chatCalls) = 2
           /\ chatCalls[1].messages[1].content =
                CorFewShotMessage(training_data, message)
           /\ Len(chatCalls[2].messages) = 2
           /\ chatCalls[2].messages[2] = Assistant(THEREFORE)
           /\ result = chatCalls[2].response["message"]["content"]

\* C8: zero_shot issues one chat call whose message list is exactly
\* [{role: user, content: message}] and returns the content of the response's
\* message.
C8_ZeroShotOneCall ==
    fn = "zero_shot" =>
      /\ Len(chatCalls) <= 1
      /\ chatCalls # <<>> =>
           chatCalls[1].messages = << [role |-> "user", content |-> message] >>
      /\ pc = "done" =>
           /\ Len(chatCalls) = 1
           /\ result = chatCalls[1].response["message"]["content"]

\* C8 witness: zero_shot has returned.
C8_Witness ==
    /\ fn = "zero_shot"
    /\ pc = "done"
    /\ result \in Replies

\* C9: an update for a digest without a bar (no event has declared a total
\* for it) with a non-zero completed count raises KeyError; the exception
\* leaves the entry point, no further event is consumed and
\* "Download Complete." is not printed.
C9_MissingBarRaises ==
    [][ /\ pc = "update_bar" => DOMAIN bars = declared
        /\ (pc = "update_bar" /\ progress.completed # 0
            /\ digest \notin DOMAIN bars)
           => /\ pc' = "raised"
              /\ error' = "KeyError"
              /\ eventsLeft' = eventsLeft
              /\ checkReturns' = 0
              /\ COMPLETE \notin Range(stdout')
        /\ pc # "raised"
      ]_vars

\* C9 witness: the KeyError has left the entry point with events unread.
C9_Witness ==
    /\ pc = "raised"
    /\ error = "KeyError"
    /\ eventsLeft > 0
    /\ checkReturns = 0

\* C10: a bar is closed only by a later event whose digest differs from the
\* previous digest; the end of the stream closes none, so a bar open then is
\* open when "Download Complete." is printed and the function returns.
C10_ClosedOnlyByLaterEvent ==
    [][ /\ \A d \in DOMAIN bars :
             /\ d \in DOMAIN bars'
             /\ (~bars[d].disable /\ bars'[d].disable)
                => (pc = "close_prev" /\ d = current_digest /\ digest # d)
        /\ (pc = "pull_next" /\ checkReturns' = 1)
           => /\ stdout' = Append(stdout, COMPLETE)
              /\ OpenBars' = OpenBars
      ]_vars

\* C10 witness: the script entry point has returned with the last digest's
\* bar open.
C10_Witness ==
    /\ fn = "__main__"
    /\ pc = "done"
    /\ stdout[Len(stdout)] = COMPLETE
    /\ current_digest \in OpenBars

====
